---- MODULE Spec2Model ----
(***************************************************************************)
(* A model of html2csv.py, the converter of ING-DiBa bank statements       *)
(* (PDF -> pdftohtml HTML -> CSV).                                         *)
(*                                                                         *)
(* Text is modelled as a sequence of lexemes.  A lexeme is one character   *)
(* ("1", ".", ",", "-", " ", "\n"), one markup tag ("<b>", "</b>",         *)
(* "<br/>"), one HTML entity ("&amp;", "&#160;") or one word of letters    *)
(* ("ACME", "Lastschrift").  Regular expressions of the source are         *)
(* translated to operators over such sequences; "[^<]" is any lexeme that  *)
(* is not a tag, "\d" is a digit lexeme.                                   *)
(*                                                                         *)
(* A Decimal is the record [n |-> coefficient, e |-> fractional digits],   *)
(* denoting n * 10^(-e), as decimal.Decimal keeps it.                      *)
(***************************************************************************)
EXTENDS Integers, Sequences, FiniteSets, TLC

VARIABLES
    number,          \* argument of number_to_decimal (SpecNumber)
    numResult,       \* its outcome: Pending, or [exc, val]
    chunk,           \* argument of parse_entry: one entry block (SpecEntry)
    parsed,          \* its outcome: Pending, or [exc, rec]
    pdf_paths,       \* the paths on the command line, in order
    docs,            \* the documents read so far, in command-line order
    pc,              \* position of convert_all_pdfs
    parsed_docs,     \* results of process_html, in command-line order
    k,               \* index of the document being processed / reconciled
    i,               \* loop index of resolve_and_validate_saldos
    saldo,           \* running balance of resolve_and_validate_saldos
    transactions,    \* the list resolve_and_validate_saldos is annotating
    resolved,        \* lists returned by resolve_and_validate_saldos so far
    stdout,          \* CSV rows printed so far
    error            \* the exception that ended the run, or "none"

numVars   == <<number, numResult>>
entryVars == <<chunk, parsed>>
runVars   == <<pdf_paths, docs, pc, parsed_docs, k, i, saldo, transactions, resolved,
               stdout, error>>
vars      == <<number, numResult, chunk, parsed, pdf_paths, docs, pc, parsed_docs, k, i,
               saldo, transactions, resolved, stdout, error>>

----------------------------------------------------------------------------
(* Lexemes *)

Digit == {"0", "1", "2", "3", "4", "5", "6", "7", "8", "9"}

DigitVal(c) ==
    CASE c = "0" -> 0 [] c = "1" -> 1 [] c = "2" -> 2 [] c = "3" -> 3
      [] c = "4" -> 4 [] c = "5" -> 5 [] c = "6" -> 6 [] c = "7" -> 7
      [] c = "8" -> 8 [] c = "9" -> 9

Tag == {"<b>", "</b>", "<br/>"}

NL == "\n"

\* the character U+00A0, html.unescape('&#160;')
nbsp == "U+00A0"

Whitespace == {" ", NL, nbsp}

\* str.strip()
RECURSIVE LStrip(_)
LStrip(s) ==
    IF s # <<>> /\ Head(s) \in Whitespace THEN LStrip(Tail(s)) ELSE s

RECURSIVE RStrip(_)
RStrip(s) ==
    IF s # <<>> /\ s[Len(s)] \in Whitespace
    THEN RStrip(SubSeq(s, 1, Len(s) - 1)) ELSE s

Strip(s) == RStrip(LStrip(s))

\* html.unescape, on the entities of the model's alphabet
UnescapeLexeme(c) ==
    CASE c = "&amp;"  -> "&"
      [] c = "&#160;" -> nbsp
      [] OTHER        -> c

unescape(s) == [p \in 1..Len(s) |-> UnescapeLexeme(s[p])]

nbsp_to_sp(s) == [p \in 1..Len(s) |-> IF s[p] = nbsp THEN " " ELSE s[p]]

\* str.split('\n'): the lines of a text
RECURSIVE SplitOn(_, _)
SplitOn(s, sep) ==
    IF \E p \in 1..Len(s) : s[p] \in sep
    THEN LET p == CHOOSE q \in 1..Len(s) :
                      s[q] \in sep /\ \A r \in 1..(q - 1) : s[r] \notin sep
         IN  <<SubSeq(s, 1, p - 1)>> \o SplitOn(SubSeq(s, p + 1, Len(s)), sep)
    ELSE <<s>>

\* '\n'.join(lines)
RECURSIVE JoinLines(_)
JoinLines(ls) ==
    IF ls = <<>> THEN <<>>
    ELSE IF Len(ls) = 1 THEN ls[1]
    ELSE ls[1] \o <<NL>> \o JoinLines(Tail(ls))

RECURSIVE DigitsToNat(_)
DigitsToNat(s) ==
    IF s = <<>> THEN 0
    ELSE DigitsToNat(SubSeq(s, 1, Len(s) - 1)) * 10 + DigitVal(s[Len(s)])

----------------------------------------------------------------------------
(* Decimals *)

Dec(n, e) == [n |-> n, e |-> e]

MaxInt(a, b) == IF a >= b THEN a ELSE b

\* Decimal.__add__: the result keeps the larger number of fractional digits
DecAdd(a, b) ==
    LET e == MaxInt(a.e, b.e)
    IN  Dec(a.n * 10^(e - a.e) + b.n * 10^(e - b.e), e)

\* a comparison that lets a difference of up to 1 pass
DecEq_tolerant(a, b) ==
    LET d == a.n * 10^(b.e) - b.n * 10^(a.e)
    IN  d <= 10^(a.e + b.e) /\ 0 - d <= 10^(a.e + b.e)

\* Decimal.__eq__ / __ne__: comparison by value
DecEq(a, b) == a.n * 10^(b.e) = b.n * 10^(a.e)

\* decimal.Decimal(str): the value, or InvalidOperation.  The alphabet of the
\* model has no exponent, "Infinity", "NaN" or "_" lexemes.
DecimalOfString(s) ==
    LET t      == Strip(s)
        signed == t # <<>> /\ t[1] \in {"-", "+"}
        body   == IF signed THEN Tail(t) ELSE t
        dots   == {p \in 1..Len(body) : body[p] = "."}
        valid  == /\ \A p \in 1..Len(body) : body[p] \in Digit \cup {"."}
                  /\ Cardinality(dots) <= 1
                  /\ \E p \in 1..Len(body) : body[p] \in Digit
        dot    == IF dots = {} THEN Len(body) + 1 ELSE CHOOSE p \in dots : TRUE
        int    == SubSeq(body, 1, dot - 1)
        frac   == SubSeq(body, dot + 1, Len(body))
        coef   == DigitsToNat(int \o frac)
    IN  IF valid
        THEN [exc |-> "none",
              val |-> Dec(IF signed /\ t[1] = "-" THEN 0 - coef ELSE coef,
                          Len(frac))]
        ELSE [exc |-> "InvalidOperation", val |-> Dec(0, 0)]

\* number.replace('.', '').replace(',', '.')
format_normalize(s) ==
    LET nodots == SelectSeq(s, LAMBDA c : c # ".")
    IN  [p \in 1..Len(nodots) |-> IF nodots[p] = "," THEN "." ELSE nodots[p]]

CentsAt(s, p) ==
    /\ p + 2 <= Len(s)
    /\ s[p] = "."
    /\ s[p + 1] \in Digit
    /\ s[p + 2] \in Digit

\* re.sub('(\.\d\d).*', '\1', s): from the first ".dd" on, the rest of the
\* line is dropped; the scan then goes on after the line's end.
RECURSIVE strip_after_cents(_)
strip_after_cents(s) ==
    IF \E p \in 1..Len(s) : CentsAt(s, p)
    THEN LET p    == CHOOSE q \in 1..Len(s) :
                         CentsAt(s, q) /\ \A r \in 1..(q - 1) : ~CentsAt(s, r)
             ends == {q \in (p + 3)..Len(s) : s[q] = NL}
             e    == IF ends = {} THEN Len(s) + 1
                     ELSE CHOOSE q \in ends : \A r \in ends : q <= r
         IN  SubSeq(s, 1, p + 2) \o strip_after_cents(SubSeq(s, e, Len(s)))
    ELSE s

\* number_to_decimal without its except clause
number_to_decimal_uncaught(s) ==
    DecimalOfString(strip_after_cents(format_normalize(s)))

\* number_to_decimal with the outcome of its try statement spelled out: the
\* value returned, or the exception that leaves the function.
number_to_decimal_outcome(s) ==
    LET stripped == strip_after_cents(format_normalize(s))
        d        == DecimalOfString(stripped)
    IN  IF d.exc = "none" THEN [exc |-> "none", val |-> d.val]
        ELSE IF d.exc = "InvalidOperation"
             THEN [exc |-> "none", val |-> Dec(0, 0)]
             ELSE d

number_to_decimal(s) == number_to_decimal_outcome(s).val

----------------------------------------------------------------------------
(* SpecNumber: number_to_decimal applied to every short text *)

MaxNumLen == 5

NumAlphabet == {"1", "9", ".", ",", "-", "a"}

RECURSIVE TextsUpTo(_, _)
TextsUpTo(alphabet, n) ==
    IF n = 0 THEN {<<>>}
    ELSE LET shorter == TextsUpTo(alphabet, n - 1)
         IN  shorter \cup {Append(s, c) : s \in shorter, c \in alphabet}

\* no outcome yet
Pending == [exc |-> "pending"]

InitNumber ==
    /\ number \in TextsUpTo(NumAlphabet, MaxNumLen)
    /\ numResult = Pending
    /\ chunk = <<>> /\ parsed = Pending
    /\ pdf_paths = <<>> /\ docs = <<>> /\ pc = "idle" /\ parsed_docs = <<>> /\ k = 0 /\ i = 0
    /\ saldo = Dec(0, 0) /\ transactions = <<>> /\ resolved = <<>>
    /\ stdout = <<>> /\ error = [type |-> "none"]

CallNumberToDecimal ==
    /\ numResult = Pending
    /\ numResult' = number_to_decimal_outcome(number)
    /\ UNCHANGED <<number, entryVars, runVars>>

NextNumber == CallNumberToDecimal

SpecNumber == InitNumber /\ [][NextNumber]_vars

\* A text in the statement's locale: an optional "-", digits and "."
\* separators, a ",", two digits, then anything.
FirstComma(s) ==
    CHOOSE p \in 1..Len(s) : s[p] = "," /\ \A q \in 1..(p - 1) : s[q] # ","

LocaleShaped(s) ==
    /\ \E p \in 1..Len(s) : s[p] = ","
    /\ LET c     == FirstComma(s)
           first == IF s[1] = "-" THEN 2 ELSE 1
       IN  /\ \A p \in first..(c - 1) : s[p] \in Digit \cup {"."}
           /\ c + 2 <= Len(s)
           /\ s[c + 1] \in Digit
           /\ s[c + 2] \in Digit

\* The value of such a text in cents, cut after the second fractional digit
LocaleCents(s) ==
    LET c      == FirstComma(s)
        first  == IF s[1] = "-" THEN 2 ELSE 1
        int    == SelectSeq(SubSeq(s, first, c - 1), LAMBDA x : x \in Digit)
        cents  == DigitsToNat(int) * 100 + DigitVal(s[c + 1]) * 10
                    + DigitVal(s[c + 2])
    IN  IF s[1] = "-" THEN 0 - cents ELSE cents

\* A text with something else than digits, separators and a sign in front of
\* its decimal comma (or with no comma at all) is not a number.
JunkBeforeComma(s) ==
    \E p \in 1..Len(s) :
        /\ s[p] \notin Digit \cup {".", ",", "-", "+", " "}
        /\ \A q \in 1..(p - 1) : s[q] # ","

\* C7: number_to_decimal never raises; a text in the statement's locale gives
\* exactly its value cut (not rounded) after the second fractional digit;
\* a text that is not a number gives exactly zero.
C7_NumberToDecimal ==
    numResult # Pending =>
        /\ numResult.exc = "none"
        /\ LocaleShaped(number) => numResult.val = Dec(LocaleCents(number), 2)
        /\ JunkBeforeComma(number) => numResult.val = Dec(0, 0)

\* "1,199" has been converted to 1.19, not to 1.20
C7_Witness ==
    /\ number = <<"1", ",", "1", "9", "9">>
    /\ numResult = [exc |-> "none", val |-> Dec(119, 2)]

----------------------------------------------------------------------------
(* Regular expressions over lexemes *)

\* the first tag at or after position p, Len(s) + 1 if there is none
NextTag(s, p) ==
    LET tags == {q \in p..Len(s) : s[q] \in Tag}
    IN  IF tags = {} THEN Len(s) + 1
        ELSE CHOOSE q \in tags : \A r \in tags : q <= r

\* open([^<]+)close matches at p
DelimitedAt(s, p, open, close) ==
    /\ s[p] = open
    /\ p + 1 <= Len(s)
    /\ s[p + 1] \notin Tag
    /\ NextTag(s, p + 1) <= Len(s)
    /\ s[NextTag(s, p + 1)] = close

\* re.search('open([^<]+)close', s): <<>> for no match, else <<group 1>>
SearchDelimited(s, open, close) ==
    LET hits == {p \in 1..Len(s) : DelimitedAt(s, p, open, close)}
    IN  IF hits = {} THEN <<>>
        ELSE LET p == CHOOSE q \in hits : \A r \in hits : q <= r
             IN  <<SubSeq(s, p + 1, NextTag(s, p + 1) - 1)>>

\* re.search('([^<]+)<br/>', s): <<>> for no match, else <<group 1>>
SearchBeforeBr(s) ==
    LET hits == {p \in 1..Len(s) :
                    /\ s[p] \notin Tag
                    /\ NextTag(s, p) <= Len(s)
                    /\ s[NextTag(s, p)] = "<br/>"}
    IN  IF hits = {} THEN <<>>
        ELSE LET p == CHOOSE q \in hits : \A r \in hits : q <= r
             IN  <<SubSeq(s, p, NextTag(s, p) - 1)>>

\* \d\d\.\d\d\.\d\d\d\d at the start of s; with loose = TRUE the separators
\* are the unescaped "." of the second date of the entry pattern
StartsWithDate(s, loose) ==
    /\ Len(s) >= 10
    /\ \A p \in {1, 2, 4, 5, 7, 8, 9, 10} : s[p] \in Digit
    /\ \A p \in {3, 6} : IF loose THEN s[p] # NL ELSE s[p] = "."

None == <<>>

\* the ISO date, or None
parse_date(date) ==
    LET d == IF date # <<>> /\ date[Len(date)] = NL
             THEN SubSeq(date, 1, Len(date) - 1) ELSE date
    IN  IF Len(d) = 10 /\ StartsWithDate(d, FALSE)
        THEN <<d[7], d[8], d[9], d[10], "-", d[4], d[5], "-", d[1], d[2]>>
        ELSE None

----------------------------------------------------------------------------
(* The field extractors.  Each takes the entry text and the record built so *)
(* far and gives [exc, rec]: the exception it raises, and the record.       *)

kinds ==
    ( <<"Lastschrift">> :> <<"Lastschrift">> ) @@
    ( <<"Gehalt/Rente">> :> <<"Gehalt/Rente">> ) @@
    ( <<"Ueberweisung">> :> <<"Überweisung">> ) @@
    ( <<"Dauerauftrag/Terminueberw.">> :>
          <<"Dauerauftrag", " ", "/", " ", "Terminueberweisung">> ) @@
    ( <<"Gutschrift">> :> <<"Gutschrift">> ) @@
    ( <<"Abschluss">> :> <<"Abschluss">> ) @@
    ( <<"Abbuchung">> :> <<"Abbuchung">> ) @@
    ( <<"Gutschrift/Dauerauftrag">> :>
          <<"Gutschrift", " ", "/", " ", "Dauerauftrag">> ) @@
    ( <<"Retoure">> :> <<"Retoure">> ) @@
    ( <<"Wertpapierkauf">> :> <<"Wertpapierkauf">> ) @@
    ( <<"Zins/Dividende", " ", "WP">> :> <<"Zins/Dividende", " ", "WP">> )

internal_transaction_kinds ==
    {<<"Wertpapierkauf">>, <<"Abschluss">>, <<"Zins/Dividende", " ", "WP">>}

Has(e, key) == key \in DOMAIN e

\* parsed[key] = value
Put(e, key, value) == (key :> value) @@ e

EmptyDict == [key \in {} |-> <<>>]

Ok(rec) == [exc |-> "none", rec |-> rec]

Raise(exc, rec) == [exc |-> exc, rec |-> rec]

is_internal_transaction(e) ==
    IF Has(e, "kind") THEN e.kind \in internal_transaction_kinds ELSE FALSE

extract_kind(c, rec) ==
    LET match == SearchDelimited(c, "<b>", "</b>")
    IN  IF match = <<>> THEN Raise("AssertionError", rec)
        ELSE LET kind == Strip(unescape(match[1]))
             IN  Ok(Put(rec, "kind",
                        IF kind \in DOMAIN kinds THEN kinds[kind] ELSE kind))

extract_initiation(c, rec) ==
    LET brs == {p \in 1..Len(c) : c[p] = "<br/>"}
    IN  IF brs = {} THEN Raise("AssertionError", rec)
        ELSE LET p    == CHOOSE q \in brs : \A r \in brs : q <= r
                 date == parse_date(SubSeq(c, 1, p - 1))
             IN  IF date = None THEN Raise("AssertionError", rec)
                 ELSE Ok(Put(rec, "initiation", date))

extract_valuta(c, rec) ==
    LET lines == SplitOn(c, {NL})
    IN  IF ~(Len(lines) > 3) THEN Raise("AssertionError", rec)
        ELSE LET match == SearchBeforeBr(lines[4])
             IN  IF match = <<>> THEN Raise("AssertionError", rec)
                 ELSE IF parse_date(match[1]) = None
                      THEN Raise("AssertionError", rec)
                      ELSE Ok(Put(rec, "valuta", parse_date(match[1])))

extract_partner(c, rec) ==
    IF is_internal_transaction(rec) THEN Ok(Put(rec, "partner", <<"ING-DiBa">>))
    ELSE LET match == SearchDelimited(c, "</b>", "<br/>")
         IN  IF match = <<>> THEN Raise("AssertionError", rec)
             ELSE Ok(Put(rec, "partner", Strip(unescape(match[1]))))

\* extract_amount leaving the amount out when the text is not a number
extract_amount_or_absent(c, rec) ==
    LET lines == SplitOn(c, {NL})
    IN  IF ~(Len(lines) >= 3) THEN Raise("AssertionError", rec)
        ELSE IF number_to_decimal_uncaught(lines[3]).exc # "none" THEN Ok(rec)
        ELSE Ok(Put(rec, "amount", number_to_decimal(lines[3])))

\* extract_amount reading the line before
extract_amount_line_before(c, rec) ==
    LET lines == SplitOn(c, {NL})
    IN  IF ~(Len(lines) >= 3) THEN Raise("AssertionError", rec)
        ELSE Ok(Put(rec, "amount", number_to_decimal(lines[2])))

extract_amount(c, rec) ==
    LET lines == SplitOn(c, {NL})
    IN  IF ~(Len(lines) >= 3) THEN Raise("AssertionError", rec)
        ELSE Ok(Put(rec, "amount", number_to_decimal(lines[3])))

RECURSIVE JoinWith(_, _)
JoinWith(ss, sep) ==
    IF ss = <<>> THEN <<>>
    ELSE IF Len(ss) = 1 THEN ss[1]
    ELSE ss[1] \o <<sep>> \o JoinWith(Tail(ss), sep)

StartsWith(s, word) == s # <<>> /\ s[1] = word

extract_application(c, rec) ==
    IF rec.kind = <<"Abschluss">> THEN Ok(rec)
    ELSE LET lines == SplitOn(c, {NL})
         IN  IF Len(lines) > 4
             THEN LET line   == [p \in 1..Len(lines[5]) |->
                                   IF lines[5][p] = "<br/>" THEN NL
                                   ELSE lines[5][p]]
                      pieces == SelectSeq(SplitOn(Strip(line), {NL}),
                                   LAMBDA x : /\ ~StartsWith(x, "Mandat:")
                                              /\ ~StartsWith(x, "Referenz:"))
                      texts  == [p \in 1..Len(pieces) |->
                                   nbsp_to_sp(unescape(pieces[p]))]
                  IN  Ok(Put(rec, "application", JoinWith(texts, " ")))
             ELSE Ok(rec)

\* the first lexeme at or after p that [^<\s] does not match
NextTagOrSpace(s, p) ==
    LET stops == {q \in p..Len(s) : s[q] \in Tag \cup Whitespace}
    IN  IF stops = {} THEN Len(s) + 1
        ELSE CHOOSE q \in stops : \A r \in stops : q <= r

\* '<br/>\n?label&#160;([^<\s]+)<br/>' matches at p, label starting at q;
\* anchored: the pattern ends in '$'
LabelledAt(s, p, q, label, anchored) ==
    /\ s[p] = "<br/>"
    /\ q + 3 <= Len(s)
    /\ q = p + 1 \/ (q = p + 2 /\ s[p + 1] = NL)
    /\ s[q] = label
    /\ s[q + 1] = "&#160;"
    /\ s[q + 2] \notin Tag \cup Whitespace
    /\ LET e == NextTagOrSpace(s, q + 2)
       IN  /\ e <= Len(s)
           /\ s[e] = "<br/>"
           /\ anchored => \/ e = Len(s)
                          \/ e = Len(s) - 1 /\ s[Len(s)] = NL

\* <<>> for no match, else <<group 1>>
SearchLabelled(s, label, anchored) ==
    LET hits == {p \in 1..Len(s) :
                    \E q \in {p + 1, p + 2} : LabelledAt(s, p, q, label, anchored)}
    IN  IF hits = {} THEN <<>>
        ELSE LET p == CHOOSE r \in hits : \A t \in hits : r <= t
                 q == CHOOSE r \in {p + 1, p + 2} :
                          LabelledAt(s, p, r, label, anchored)
             IN  <<SubSeq(s, q + 2, NextTagOrSpace(s, q + 2) - 1)>>

extract_reference(c, rec) ==
    LET match == SearchLabelled(c, "Referenz:", TRUE)
    IN  IF match # <<>>
        THEN Ok(Put(rec, "reference", nbsp_to_sp(Strip(unescape(match[1])))))
        ELSE Ok(rec)

extract_mandate(c, rec) ==
    LET match == SearchLabelled(c, "Mandat:", FALSE)
    IN  IF match # <<>>
        THEN Ok(Put(rec, "mandate", nbsp_to_sp(Strip(unescape(match[1])))))
        ELSE Ok(rec)

\* the two statements after the extractors
copy_dates(rec) ==
    LET r1 == IF Has(rec, "valuta") /\ ~Has(rec, "initiation")
              THEN Put(rec, "initiation", rec.valuta) ELSE rec
    IN  IF Has(r1, "initiation") /\ ~Has(r1, "valuta")
        THEN Put(r1, "valuta", r1.initiation) ELSE r1

\* the next extractor runs unless an exception has left the function
Then(r, extract(_, _), c) == IF r.exc = "none" THEN extract(c, r.rec) ELSE r

\* parse_entry: the extractors in the order of the source; the first
\* exception leaves the function
parse_entry(c) ==
    LET r8 == Then(Then(Then(Then(Then(Then(Then(extract_kind(c, EmptyDict),
                  extract_initiation, c), extract_valuta, c),
                  extract_partner, c), extract_amount, c),
                  extract_application, c), extract_reference, c),
                  extract_mandate, c)
    IN  IF r8.exc = "none" THEN Ok(copy_dates(r8.rec)) ELSE r8

preprocess_part(part) ==
    LET nbsp_stripped == [p \in 1..Len(part) |->
                            IF part[p] = "&#160;" THEN " " ELSE part[p]]
        html_stripped == SelectSeq(nbsp_stripped, LAMBDA x : x \notin Tag)
    IN  Strip(html_stripped)

chunk_entry(entry) ==
    LET parts     == SplitOn(entry, {"</b>", "<br/>"})
        processed == [p \in 1..Len(parts) |-> preprocess_part(parts[p])]
    IN  SelectSeq(processed, LAMBDA x : Len(x) > 0)

\* the entry pattern of process_html, on the lines of a candidate block
is_table_entry(lines) ==
    /\ Len(lines) \in {4, 5}
    /\ \A p \in 1..Len(lines) : lines[p] # <<>> /\ NL \notin {lines[p][q] : q \in 1..Len(lines[p])}
    /\ StartsWithDate(lines[1], FALSE)
    /\ StartsWith(lines[2], "<b>") /\ Len(lines[2]) >= 2
    /\ StartsWithDate(lines[4], TRUE) /\ Len(lines[4]) >= 11
    /\ Len(lines) = 5 => ~StartsWithDate(lines[5], FALSE)

----------------------------------------------------------------------------
(* SpecEntry: parse_entry applied to every block of a family of blocks that *)
(* the entry pattern of process_html matches                                *)

Date1 == <<"0", "1", ".", "0", "3", ".", "2", "0", "2", "1">>

Date2 == <<"0", "2", ".", "0", "3", ".", "2", "0", "2", "1">>

Date2Dashes == <<"0", "2", "-", "0", "3", "-", "2", "0", "2", "1">>

Line0Options ==
    { Date1 \o <<"<br/>">>,
      Date1 \o <<" ", "<br/>">>,
      Date1 \o <<"<br/>", "x", "<br/>">>,
      Date1 }

Line1Options ==
    { <<"<b>", "Lastschrift", "</b>", "ACME", "<br/>">>,
      <<"<b>", "Ueberweisung", "</b>", "ACME", " ", "&amp;", " ", "Co", "<br/>">>,
      <<"<b>", "Sonstiges", "</b>", "ACME", "<br/>">>,
      <<"<b>", "Abschluss", "</b>", "<br/>">>,
      <<"<b>", " ", "Zins/Dividende", " ", "WP", "</b>", "<br/>">>,
      <<"<b>", "Wertpapierkauf", "</b>", "ACME", "<br/>">>,
      <<"<b>", "Lastschrift", "</b>", "<br/>">>,
      <<"<b>", "Lastschrift", "</b>">>,
      <<"<b>", "Lastschrift", "<br/>">>,
      <<"<b>">> }

Line2Options ==
    { <<"-", "2", "0", ",", "0", "0", "<br/>">>,
      <<"1", ".", "2", "3", "4", ",", "5", "6", "9", "<br/>">>,
      <<"abc", "<br/>">>,
      <<"2", "0", "<br/>">>,
      <<"5", ",", "0", "0">> }

Line3Options ==
    { Date2 \o <<"<br/>">>,
      Date2 \o <<" ", "x", "<br/>">>,
      Date2Dashes \o <<"<br/>">>,
      Date2 \o <<"x">>,
      Date2 }

Line4Options ==
    { <<"note", "<br/>">>,
      <<"note", "&#160;", "x", "<br/>", "Mandat:", "&#160;", "M1", "<br/>",
        "Referenz:", "&#160;", "R1", "<br/>">>,
      <<"Referenz:", "&#160;", "R1", "<br/>">>,
      Date2 \o <<"<br/>">> }

CandidateBlocks ==
    {<<l0, l1, l2, l3>> : l0 \in Line0Options, l1 \in Line1Options,
                          l2 \in Line2Options, l3 \in Line3Options}
    \cup
    {<<l0, l1, l2, l3, l4>> : l0 \in Line0Options, l1 \in Line1Options,
                              l2 \in Line2Options, l3 \in Line3Options,
                              l4 \in Line4Options}

\* re.findall(r, page) hands over exactly the blocks the pattern matches
TableEntries == {JoinLines(b) : b \in {c \in CandidateBlocks : is_table_entry(c)}}

InitEntry ==
    /\ chunk \in TableEntries
    /\ parsed = Pending
    /\ number = <<>> /\ numResult = Pending
    /\ pdf_paths = <<>> /\ docs = <<>> /\ pc = "idle" /\ parsed_docs = <<>> /\ k = 0 /\ i = 0
    /\ saldo = Dec(0, 0) /\ transactions = <<>> /\ resolved = <<>>
    /\ stdout = <<>> /\ error = [type |-> "none"]

CallParseEntry ==
    /\ parsed = Pending
    /\ parsed' = parse_entry(chunk)
    /\ UNCHANGED <<chunk, numVars, runVars>>

NextEntry == CallParseEntry

SpecEntry == InitEntry /\ [][NextEntry]_vars

\* The positions of the specification count the chunks of chunk_entry from 0
Position(c, n) == chunk_entry(c)[n + 1]

HasPosition(c, n) == Len(chunk_entry(c)) >= n + 1

\* a line that is one run of text closed by <br/>
TextLine(l) ==
    /\ Len(l) >= 2
    /\ l[Len(l)] = "<br/>"
    /\ \A p \in 1..(Len(l) - 1) : l[p] \notin Tag
    /\ preprocess_part(SubSeq(l, 1, Len(l) - 1)) # <<>>

\* a label line: <b>kind</b>, possibly text, <br/>
LabelLine(l) ==
    /\ Len(l) >= 4
    /\ l[1] = "<b>"
    /\ l[Len(l)] = "<br/>"
    /\ \E e \in 3..(Len(l) - 1) :
          /\ l[e] = "</b>"
          /\ \A p \in (2..(Len(l) - 1)) \ {e} : l[p] \notin Tag
          /\ preprocess_part(SubSeq(l, 2, e - 1)) # <<>>
          /\ e + 1 <= Len(l) - 1 =>
                 preprocess_part(SubSeq(l, e + 1, Len(l) - 1)) # <<>>

\* the label line carries text after the label
TextAfterLabel(l) == l[Len(l) - 1] # "</b>"

\* an entry in the regular layout of the statement
Regular(c) ==
    LET lines == SplitOn(c, {NL})
    IN  /\ TextLine(lines[1])
        /\ LabelLine(lines[2])
        /\ TextLine(lines[3])
        /\ TextLine(lines[4])

\* the value of the text at a position, when it is an amount
AmountAt(c, n, amount) ==
    LocaleShaped(Position(c, n)) => amount = Dec(LocaleCents(Position(c, n)), 2)

LocatableHead(c) ==
    LET lines == SplitOn(c, {NL})
    IN  /\ TextLine(lines[1])
        /\ parse_date(SubSeq(lines[1], 1, Len(lines[1]) - 1)) # None
        /\ LabelLine(lines[2])
        /\ \/ TextAfterLabel(lines[2])
           \/ is_internal_transaction(extract_kind(c, EmptyDict).rec)

\* C8: parse_entry never raises for a block the entry pattern matched; in
\* particular, when the other fields can be located, a value date that
\* cannot be located or parsed does not abort: 'valuta' is then copied from
\* the initiation date.
C8_NeverRaises ==
    (parsed # Pending /\ LocatableHead(chunk)) =>
        /\ parsed.exc = "none"
        /\ parsed.rec.valuta \in {parse_date(Date1), parse_date(Date2)}

----------------------------------------------------------------------------
(* The run: convert_all_pdfs *)

NoError == [type |-> "none"]

\* the filter of process_html
is_transaction(e) == Has(e, "kind") /\ Has(e, "amount") /\ Has(e, "initiation")

\* transactions = [e for e in parsed_entries if ...], for a page whose
\* blocks parse_entry has turned into the outcomes rs
RECURSIVE page_transactions(_)
page_transactions(rs) ==
    IF rs = <<>> THEN Ok(<<>>)
    ELSE IF Head(rs).exc # "none" THEN Raise(Head(rs).exc, <<>>)
    ELSE IF page_transactions(Tail(rs)).exc # "none"
         THEN page_transactions(Tail(rs))
    ELSE IF is_transaction(Head(rs).rec)
         THEN Ok(<<Head(rs).rec>> \o page_transactions(Tail(rs)).rec)
         ELSE page_transactions(Tail(rs))

\* all_transactions.extend(ts), given the outcome of the pages that follow
prepend(ts, rest) ==
    IF rest.exc # "none" THEN rest ELSE Ok(ts \o rest.rec)

\* the loop over the pages: [exc, rec], the exception that leaves
\* process_html, or all_transactions
RECURSIVE process_pages(_)
RECURSIVE extend(_, _)
process_pages(pages) ==
    IF pages = <<>> THEN Ok(<<>>)
    ELSE extend(page_transactions([p \in 1..Len(Head(pages)) |->
                                      parse_entry(Head(pages)[p])]),
                Tail(pages))

\* one page's transactions, then the pages that follow
extend(page, pages) ==
    IF page.exc # "none" THEN page
    ELSE prepend(page.rec, process_pages(pages))

\* process_html: [exc, rec], rec being (old_saldo, new_saldo, all_transactions)
with_saldos(saldos, all) ==
    IF all.exc # "none" THEN all
    ELSE Ok([old_saldo    |-> number_to_decimal(saldos[1]),
             new_saldo    |-> number_to_decimal(saldos[2]),
             transactions |-> all.rec])

process_html(doc) == with_saldos(doc.saldos, process_pages(doc.pages))

\* flatten taking the lists from the last to the first
RECURSIVE flatten_reversed(_)
flatten_reversed(l) ==
    IF l = <<>> THEN <<>> ELSE flatten_reversed(Tail(l)) \o Head(l)

\* flatten(l)
RECURSIVE flatten(_)
flatten(l) == IF l = <<>> THEN <<>> ELSE Head(l) \o flatten(Tail(l))

DigitChar(n) ==
    CASE n = 0 -> "0" [] n = 1 -> "1" [] n = 2 -> "2" [] n = 3 -> "3"
      [] n = 4 -> "4" [] n = 5 -> "5" [] n = 6 -> "6" [] n = 7 -> "7"
      [] n = 8 -> "8" [] n = 9 -> "9"

RECURSIVE NatToDigits(_)
NatToDigits(n) ==
    IF n < 10 THEN <<DigitChar(n)>>
    ELSE NatToDigits(n \div 10) \o <<DigitChar(n % 10)>>

RECURSIVE ZeroPad(_, _)
ZeroPad(s, n) == IF Len(s) >= n THEN s ELSE ZeroPad(<<"0">> \o s, n)

\* str(Decimal): what '{}'.format prints for a balance or an amount
DecToText(d) ==
    LET abs    == IF d.n < 0 THEN 0 - d.n ELSE d.n
        digits == ZeroPad(NatToDigits(abs), d.e + 1)
        int    == SubSeq(digits, 1, Len(digits) - d.e)
        frac   == SubSeq(digits, Len(digits) - d.e + 1, Len(digits))
    IN  (IF d.n < 0 THEN <<"-">> ELSE <<>>) \o int \o
        (IF d.e > 0 THEN <<".">> \o frac ELSE <<>>)

\* entry.get(key, '')
Get(e, key) == IF Has(e, key) THEN e[key] ELSE <<>>

GetDecimal(e, key) == IF Has(e, key) THEN DecToText(e[key]) ELSE <<>>

\* the columns of the line emit_csv prints for one entry
csv_row(entry) ==
    [initiation  |-> Get(entry, "initiation"),
     valuta      |-> Get(entry, "valuta"),
     partner     |-> Get(entry, "partner"),
     kind        |-> Get(entry, "kind"),
     application |-> Get(entry, "application"),
     old_saldo   |-> GetDecimal(entry, "old_saldo"),
     new_saldo   |-> GetDecimal(entry, "new_saldo"),
     amount      |-> GetDecimal(entry, "amount"),
     reference   |-> Get(entry, "reference"),
     mandate     |-> Get(entry, "mandate")]

\* the outcome r of process_html for document k: it is appended to
\* parsed_docs, or its exception ends the run
StoreParsed(r) ==
    IF r.exc # "none"
    THEN /\ error' = [type |-> r.exc]
         /\ pc' = "aborted"
         /\ UNCHANGED <<parsed_docs, k>>
    ELSE /\ parsed_docs' = Append(parsed_docs, r.rec)
         /\ IF k = Len(pdf_paths)
            THEN pc' = "resolve" /\ k' = 1
            ELSE pc' = "process" /\ k' = k + 1
         /\ UNCHANGED error

\* parsed_docs = [process_html(p) for p in html_paths], one document a step;
\* content_file.read() gives the document doc
ProcessHtml(doc) ==
    /\ pc = "process"
    /\ k <= Len(pdf_paths)
    /\ docs' = Append(docs, doc)
    /\ StoreParsed(process_html(doc))
    /\ UNCHANGED <<pdf_paths, i, saldo, transactions, resolved, stdout,
                   numVars, entryVars>>

\* ResolveBegin going on from the balance the document before ended with
ResolveBegin_carry_over ==
    /\ pc = "resolve"
    /\ k <= Len(parsed_docs)
    /\ saldo' = IF k = 1 THEN parsed_docs[k].old_saldo ELSE saldo
    /\ transactions' = parsed_docs[k].transactions
    /\ i' = 1
    /\ pc' = "loop"
    /\ UNCHANGED <<pdf_paths, docs, parsed_docs, k, resolved, stdout, error, numVars,
                   entryVars>>

\* resolve_and_validate_saldos(old, new, doc) is entered for document k
ResolveBegin ==
    /\ pc = "resolve"
    /\ k <= Len(parsed_docs)
    /\ saldo' = parsed_docs[k].old_saldo
    /\ transactions' = parsed_docs[k].transactions
    /\ i' = 1
    /\ pc' = "loop"
    /\ UNCHANGED <<pdf_paths, docs, parsed_docs, k, resolved, stdout, error, numVars,
                   entryVars>>

\* ResolveStep noting old_saldo after the amount is added
ResolveStep_old_after_add ==
    /\ pc = "loop"
    /\ i <= Len(transactions)
    /\ LET t == transactions[i]
       IN  IF Has(t, "amount")
           THEN /\ saldo' = DecAdd(saldo, t.amount)
                /\ transactions' =
                       [transactions EXCEPT ![i] =
                           Put(Put(t, "old_saldo", saldo'), "new_saldo", saldo')]
           ELSE /\ saldo' = saldo
                /\ transactions' =
                       [transactions EXCEPT ![i] = Put(t, "old_saldo", saldo)]
    /\ i' = i + 1
    /\ UNCHANGED <<pdf_paths, docs, pc, parsed_docs, k, resolved, stdout, error, numVars,
                   entryVars>>

\* ResolveStep annotating only the records that have an amount
ResolveStep_only_with_amount ==
    /\ pc = "loop"
    /\ i <= Len(transactions)
    /\ LET t == transactions[i]
       IN  IF Has(t, "amount")
           THEN /\ saldo' = DecAdd(saldo, t.amount)
                /\ transactions' =
                       [transactions EXCEPT ![i] =
                           Put(Put(t, "old_saldo", saldo), "new_saldo", saldo')]
           ELSE /\ saldo' = saldo
                /\ transactions' = transactions
    /\ i' = i + 1
    /\ UNCHANGED <<pdf_paths, docs, pc, parsed_docs, k, resolved, stdout, error, numVars,
                   entryVars>>

\* one round of its loop
ResolveStep ==
    /\ pc = "loop"
    /\ i <= Len(transactions)
    /\ LET t  == Put(transactions[i], "old_saldo", saldo)
       IN  IF Has(t, "amount")
           THEN /\ saldo' = DecAdd(saldo, t.amount)
                /\ transactions' =
                       [transactions EXCEPT ![i] = Put(t, "new_saldo", saldo')]
           ELSE /\ saldo' = saldo
                /\ transactions' = [transactions EXCEPT ![i] = t]
    /\ i' = i + 1
    /\ UNCHANGED <<pdf_paths, docs, pc, parsed_docs, k, resolved, stdout, error, numVars,
                   entryVars>>

\* ResolveCheck printing the rows of a document as soon as it reconciles
ResolveCheck_streaming ==
    /\ pc = "loop"
    /\ i > Len(transactions)
    /\ IF ~DecEq(saldo, parsed_docs[k].new_saldo)
       THEN /\ error' = [type       |-> "ValueError",
                         expected   |-> DecToText(parsed_docs[k].new_saldo),
                         calculated |-> DecToText(saldo)]
            /\ pc' = "aborted"
            /\ UNCHANGED <<k, i, resolved, stdout>>
       ELSE /\ resolved' = Append(resolved, transactions)
            /\ stdout' = stdout \o [r \in 1..Len(transactions) |->
                                       csv_row(transactions[r])]
            /\ IF k = Len(parsed_docs)
               THEN pc' = "done" /\ i' = 1 /\ k' = k
               ELSE pc' = "resolve" /\ k' = k + 1 /\ i' = i
            /\ UNCHANGED error
    /\ UNCHANGED <<pdf_paths, docs, parsed_docs, saldo, transactions, numVars, entryVars>>

\* the check after the loop: ValueError, or the list is returned
ResolveCheck ==
    /\ pc = "loop"
    /\ i > Len(transactions)
    /\ IF ~DecEq(saldo, parsed_docs[k].new_saldo)
       THEN /\ error' = [type       |-> "ValueError",
                         expected   |-> DecToText(parsed_docs[k].new_saldo),
                         calculated |-> DecToText(saldo)]
            /\ pc' = "aborted"
            /\ UNCHANGED <<k, i, resolved>>
       ELSE /\ resolved' = Append(resolved, transactions)
            /\ IF k = Len(parsed_docs)
               THEN pc' = "emit" /\ i' = 1 /\ k' = k
               ELSE pc' = "resolve" /\ k' = k + 1 /\ i' = i
            /\ UNCHANGED error
    /\ UNCHANGED <<pdf_paths, docs, parsed_docs, saldo, transactions, stdout, numVars,
                   entryVars>>

\* emit_csv(final_transactions): one print a step
EmitRow ==
    /\ pc = "emit"
    /\ i <= Len(flatten(resolved))
    /\ stdout' = Append(stdout, csv_row(flatten(resolved)[i]))
    /\ i' = i + 1
    /\ UNCHANGED <<pdf_paths, docs, pc, parsed_docs, k, saldo, transactions, resolved,
                   error, numVars, entryVars>>

\* emit_csv returns; shutil.rmtree(tmp_path)
Finish ==
    /\ pc = "emit"
    /\ i > Len(flatten(resolved))
    /\ pc' = "done"
    /\ UNCHANGED <<pdf_paths, docs, parsed_docs, k, i, saldo, transactions, resolved,
                   stdout, error, numVars, entryVars>>

MaxDocs == 2

\* a direct debit of 20,00 with a mandate
EntryDebit ==
    JoinLines(<<Date1 \o <<"<br/>">>,
                <<"<b>", "Lastschrift", "</b>", "ACME", "<br/>">>,
                <<"-", "2", "0", ",", "0", "0", "<br/>">>,
                Date2 \o <<"<br/>">>,
                <<"note", "<br/>", "Mandat:", "&#160;", "M1", "<br/>">>>>)

\* a closing entry whose amount is not a number
EntryClosing ==
    JoinLines(<<Date1 \o <<"<br/>">>,
                <<"<b>", "Abschluss", "</b>", "<br/>">>,
                <<"abc", "<br/>">>,
                Date1 \o <<"<br/>">>>>)

\* a credit whose value date is written with dashes
EntryDashes ==
    JoinLines(<<Date1 \o <<"<br/>">>,
                <<"<b>", "Gutschrift", "</b>", "ACME", "<br/>">>,
                <<"2", "0", ",", "0", "0", "<br/>">>,
                Date2Dashes \o <<"<br/>">>>>)

DocEntries == {EntryDebit, EntryClosing, EntryDashes}

\* the blocks found on one page: none, one, or a debit and a closing entry
PageChoices ==
    {<<>>} \cup {<<e>> : e \in DocEntries}
           \cup {<<EntryDebit, EntryClosing>>, <<EntryClosing, EntryDebit>>}

\* the pages of a document: one page, or two pages of one block each
PageSequences ==
    {<<p>> : p \in PageChoices} \cup
    {<<<<e1>>, <<e2>>>> : e1 \in DocEntries, e2 \in DocEntries}

\* the texts of the two saldos the document declares
SaldoTexts == { <<"0", ",", "0", "0">>, <<"2", "0", ",", "0", "0">> }

Documents == [saldos : SaldoTexts \X SaldoTexts, pages : PageSequences]

Init ==
    /\ pdf_paths \in {[p \in 1..n |-> p] : n \in 1..MaxDocs}
    /\ docs = <<>>
    /\ pc = "process"
    /\ k = 1
    /\ parsed_docs = <<>>
    /\ i = 0
    /\ saldo = Dec(0, 0)
    /\ transactions = <<>>
    /\ resolved = <<>>
    /\ stdout = <<>>
    /\ error = NoError
    /\ number = <<>> /\ numResult = Pending
    /\ chunk = <<>> /\ parsed = Pending

Next ==
    \/ \E doc \in Documents : ProcessHtml(doc)
    \/ ResolveBegin
    \/ ResolveStep
    \/ ResolveCheck
    \/ EmitRow
    \/ Finish

Spec == Init /\ [][Next]_vars

----------------------------------------------------------------------------
(* SpecResolve: resolve_and_validate_saldos applied to one document whose   *)
(* records may lack an amount                                               *)

MaxTransactions == 3

RECURSIVE SeqsUpTo(_, _)
SeqsUpTo(S, n) ==
    IF n = 0 THEN {<<>>}
    ELSE LET shorter == SeqsUpTo(S, n - 1)
         IN  shorter \cup {Append(s, x) : s \in shorter, x \in S}

ResolveAmounts == {Dec(-2000, 2), Dec(2000, 2), Dec(0, 0), Dec(5, 1)}

ResolveRecords ==
    {("kind" :> <<"Lastschrift">>)} \cup
    {("kind" :> <<"Lastschrift">>) @@ ("amount" :> a) : a \in ResolveAmounts}

ResolveDocuments ==
    [old_saldo    : {Dec(0, 2), Dec(2000, 2)},
     new_saldo    : {Dec(0, 2), Dec(2000, 2), Dec(205, 1)},
     transactions : SeqsUpTo(ResolveRecords, MaxTransactions)]

InitResolve ==
    /\ parsed_docs \in {<<d>> : d \in ResolveDocuments}
    /\ pc = "resolve"
    /\ k = 1
    /\ pdf_paths = <<>>
    /\ docs = <<>>
    /\ i = 0
    /\ saldo = Dec(0, 0)
    /\ transactions = <<>>
    /\ resolved = <<>>
    /\ stdout = <<>>
    /\ error = NoError
    /\ number = <<>> /\ numResult = Pending
    /\ chunk = <<>> /\ parsed = Pending

NextResolve ==
    \/ ResolveBegin
    \/ ResolveStep
    \/ ResolveCheck

SpecResolve == InitResolve /\ [][NextResolve]_vars

----------------------------------------------------------------------------
(* Balances in cents *)

Cents(d) == d.n * 10^(2 - d.e)

AmountCents(t) == IF Has(t, "amount") THEN Cents(t.amount) ELSE 0

\* the sum of the amounts of the first n records
RECURSIVE SumCents(_, _)
SumCents(ts, n) ==
    IF n = 0 THEN 0 ELSE SumCents(ts, n - 1) + AmountCents(ts[n])

\* opening saldo + all amounts = declared closing saldo
Balanced(doc) ==
    Cents(doc.old_saldo) + SumCents(doc.transactions, Len(doc.transactions))
        = Cents(doc.new_saldo)

\* the balance a printed text denotes
TextCents(text) == Cents(DecimalOfString(text).val)

\* C1: resolve_and_validate_saldos returns its list if and only if opening
\* saldo plus all amounts equals the declared closing saldo exactly;
\* otherwise it raises a ValueError that carries the declared closing saldo
\* and the computed one, and returns no list.
C1_ReturnsIffBalanced ==
    /\ pc = "emit" =>
          /\ Balanced(parsed_docs[1])
          /\ Len(resolved) = 1
          /\ error = NoError
    /\ pc = "aborted" =>
          /\ ~Balanced(parsed_docs[1])
          /\ resolved = <<>>
          /\ error.type = "ValueError"
          /\ error.expected = DecToText(parsed_docs[1].new_saldo)
          /\ TextCents(error.calculated) =
                 Cents(parsed_docs[1].old_saldo)
                   + SumCents(parsed_docs[1].transactions,
                              Len(parsed_docs[1].transactions))

\* three amounts that miss the declared closing saldo by 0.50
C1_Witness ==
    /\ pc = "aborted"
    /\ error.type = "ValueError"
    /\ Len(parsed_docs[1].transactions) = 3
    /\ \A j \in 1..3 : Has(parsed_docs[1].transactions[j], "amount")
    /\ TextCents(error.calculated) - TextCents(error.expected) = 50

\* C2: after resolve_and_validate_saldos has succeeded, the record at
\* position j has old_saldo = opening saldo + the amounts before it and
\* new_saldo = old_saldo + its amount; so new_saldo is the old_saldo of the
\* record after it, and the last new_saldo is the declared closing saldo.
C2_PrefixSums ==
    pc = "emit" =>
        LET ts == resolved[1]
            d  == parsed_docs[1]
        IN  \A j \in 1..Len(ts) :
              /\ Cents(ts[j].old_saldo) =
                     Cents(d.old_saldo) + SumCents(d.transactions, j - 1)
              /\ Has(ts[j], "amount") =>
                   /\ Cents(ts[j].new_saldo) =
                          Cents(ts[j].old_saldo) + Cents(ts[j].amount)
                   /\ j < Len(ts) =>
                          Cents(ts[j].new_saldo) = Cents(ts[j + 1].old_saldo)
                   /\ j = Len(ts) =>
                          Cents(ts[j].new_saldo) = Cents(d.new_saldo)

\* three records with amounts, not all zero, have been reconciled
C2_Witness ==
    /\ pc = "emit"
    /\ Len(resolved[1]) = 3
    /\ \A j \in 1..3 : Has(resolved[1][j], "amount")
    /\ Cents(resolved[1][1].amount) = -2000
    /\ Cents(resolved[1][2].amount) = 50

\* C9 as stated: a record without an amount is left with neither old_saldo
\* nor new_saldo.
C9_NoAnnotation ==
    pc = "loop" =>
        \A j \in 1..Len(transactions) :
            ~Has(transactions[j], "amount") =>
                /\ ~Has(transactions[j], "old_saldo")
                /\ ~Has(transactions[j], "new_saldo")

\* C9 (amended): resolve_and_validate_saldos does not assume every record
\* has an amount: a record without one gets old_saldo (the running balance
\* when it is reached) but no new_saldo, and leaves the running balance as
\* it is; a record with an amount gets both.
C9_OldSaldoOnly ==
    pc = "loop" =>
        \A j \in 1..(i - 1) :
            /\ Has(transactions[j], "old_saldo")
            /\ Has(transactions[j], "new_saldo") <=> Has(transactions[j], "amount")
            /\ ~Has(transactions[j], "amount") =>
                   Cents(transactions[j].old_saldo) =
                       IF j + 1 <= i - 1
                       THEN Cents(transactions[j + 1].old_saldo)
                       ELSE Cents(saldo)

\* a record without an amount, then one with an amount, have been passed
C9_Witness ==
    /\ pc = "loop"
    /\ i = 3
    /\ ~Has(transactions[1], "amount")
    /\ Has(transactions[1], "old_saldo")
    /\ ~Has(transactions[1], "new_saldo")
    /\ Has(transactions[2], "new_saldo")

----------------------------------------------------------------------------
(* Claims about the run *)

\* the entry blocks of the run in source order: document by document (in
\* command-line order), page by page, block by block
RECURSIVE InOrder(_)
InOrder(ss) ==
    IF ss = <<>> THEN <<>>
    ELSE InOrder(SubSeq(ss, 1, Len(ss) - 1)) \o ss[Len(ss)]

AllEntries == InOrder([d \in 1..Len(docs) |-> InOrder(docs[d].pages)])

\* a row without the columns that reconciliation fills in
WithoutSaldos(row) ==
    [initiation  |-> row.initiation,  valuta    |-> row.valuta,
     partner     |-> row.partner,     kind      |-> row.kind,
     application |-> row.application, amount    |-> row.amount,
     reference   |-> row.reference,   mandate   |-> row.mandate]

\* the amount line of the block is a number in the statement's locale
AmountIsNumber(c) ==
    LocaleShaped(SplitOn(c, {NL})[3])

\* C3: no CSV row of any document is printed unless every document of the
\* run has passed reconciliation; a run that a mismatch aborts has printed
\* nothing.
C3_AllReconciledBeforeOutput ==
    /\ stdout # <<>> =>
          /\ Len(resolved) = Len(pdf_paths)
          /\ \A d \in 1..Len(pdf_paths) : Balanced(parsed_docs[d])
    /\ pc = "aborted" => stdout = <<>>

\* the first document reconciled, with a record; the second did not; nothing
\* has been printed
C3_Witness ==
    /\ pc = "aborted"
    /\ error.type = "ValueError"
    /\ k = 2
    /\ Len(resolved) = 1
    /\ resolved[1] # <<>>
    /\ stdout = <<>>

\* C4 as stated: an entry whose amount text is not a number is dropped, so
\* the rows of a run are those of the entries whose amount is a number.
C4_UnparsableAmountDropped ==
    pc = "done" =>
        Len(stdout) =
            Cardinality({r \in 1..Len(AllEntries) : AmountIsNumber(AllEntries[r])})

\* C4 (amended): only records with kind, amount and initiation date are
\* retained; an amount text that is not a number does not make the amount
\* missing - the amount is zero, the record is retained, reconciled and
\* printed with amount 0.
C4_RetainedWithZero ==
    /\ \A d \in 1..Len(parsed_docs) :
          \A j \in 1..Len(parsed_docs[d].transactions) :
              is_transaction(parsed_docs[d].transactions[j])
    /\ pc = "done" =>
          /\ Len(stdout) = Len(AllEntries)
          /\ \A r \in 1..Len(stdout) :
                /\ stdout[r].kind # <<>>
                /\ stdout[r].amount # <<>>
                /\ stdout[r].initiation # <<>>
                /\ ~AmountIsNumber(AllEntries[r]) => stdout[r].amount = <<"0">>

\* a run has printed the row of an entry whose amount text is "abc"
C4_Witness ==
    /\ pc = "done"
    /\ Len(stdout) >= 2
    /\ ~AmountIsNumber(AllEntries[2])
    /\ stdout[2].amount = <<"0">>
    /\ stdout[2].kind = <<"Abschluss">>

\* C6: a successful run prints exactly one row per retained record, in
\* document-then-entry order: documents in command-line order, within a
\* document page by page in source order.
C6_RowsInSourceOrder ==
    pc = "done" =>
        /\ Len(stdout) = Len(AllEntries)
        /\ \A r \in 1..Len(stdout) :
              WithoutSaldos(stdout[r]) =
                  WithoutSaldos(csv_row(parse_entry(AllEntries[r]).rec))

\* two documents of two pages each, with different entries, have been printed
C6_Witness ==
    /\ pc = "done"
    /\ Len(pdf_paths) = 2
    /\ Len(stdout) = 4
    /\ stdout[1].kind = <<"Lastschrift">>
    /\ stdout[2].kind = <<"Abschluss">>
    /\ stdout[3].kind = <<"Abschluss">>
    /\ stdout[4].kind = <<"Lastschrift">>

\* C10: every document is reconciled on its own: its running balance starts
\* from its own opening saldo and is checked against its own closing saldo,
\* and its records carry balances computed from that document alone,
\* whatever documents come before or after it.
C10_DocumentsIndependent ==
    /\ \A d \in 1..Len(resolved) :
          /\ Balanced(parsed_docs[d])
          /\ Len(resolved[d]) = Len(parsed_docs[d].transactions)
          /\ \A j \in 1..Len(resolved[d]) :
                /\ Cents(resolved[d][j].old_saldo) =
                       Cents(parsed_docs[d].old_saldo)
                         + SumCents(parsed_docs[d].transactions, j - 1)
                /\ Cents(resolved[d][j].new_saldo) =
                       Cents(parsed_docs[d].old_saldo)
                         + SumCents(parsed_docs[d].transactions, j)
    /\ pc = "loop" =>
          Cents(saldo) = Cents(parsed_docs[k].old_saldo)
                           + SumCents(parsed_docs[k].transactions, i - 1)
    /\ (pc = "aborted" /\ error.type = "ValueError") =>
          /\ ~Balanced(parsed_docs[k])
          /\ error.expected = DecToText(parsed_docs[k].new_saldo)

\* two documents with records have been reconciled, the second opening with
\* another balance than the first closed with
C10_Witness ==
    /\ pc = "done"
    /\ Len(resolved) = 2
    /\ resolved[1] # <<>>
    /\ resolved[2] # <<>>
    /\ Cents(parsed_docs[2].old_saldo) # Cents(parsed_docs[1].new_saldo)

====
